---- MODULE Spec2Model ----
(***************************************************************************)
(* Shared timeout budget of shared_timeout_requests.                       *)
(*                                                                         *)
(* A function decorated with @shared_timeout(timeout) runs with a cloned   *)
(* `requests` module whose `request` is shared_timeout_request: every call *)
(* clamps its timeout to the remaining budget, calls the real transport,   *)
(* compares the measured duration with the total and decrements the        *)
(* remaining budget.  Durations are integers (clock ticks).                *)
(***************************************************************************)
EXTENDS Integers, Sequences, FiniteSets, TLC

\* ---------------------------------------------------------------- bounds
MaxTimeout == 2      \* the decorator's timeout ranges over 1..MaxTimeout
MaxDt      == 2      \* a transport call takes 0..MaxDt ticks
MaxReq     == 2      \* a per-call timeout ranges over 0..MaxReq
MaxLoop    == 3      \* loop_count of the decorated function, 1..MaxLoop

VARIABLES
    timeout,            \* the decorator's argument (closure of _shared_timeout)
    pc,                 \* position of the decorated call
    loop_count,         \* argument of the decorated function
    callback,           \* TRUE when the decorated function was given a callback
    remained_timeout,   \* the nonlocal budget cell of arguments_catcher
    call,               \* the request call in flight, NoCall otherwise
    status_codes,       \* local list of the decorated function
    result,             \* value the decorated call returned
    exception,          \* exception the callback or the caller received
    log,                \* completed request calls of this invocation
    transport_calls,    \* calls of requests.request made by this invocation
    other,              \* a concurrent invocation of the same decorated function
    thread2             \* a request call made by a second thread of the body

vars == <<timeout, pc, loop_count, callback, remained_timeout, call,
          status_codes, result, exception, log, transport_calls,
          other, thread2>>

\* ------------------------------------------------------------ data types
\* keyword arguments of one call: without a timeout, or with timeout=t
NoKwargs == [k \in {} |-> 0]
Kwargs == {NoKwargs} \cup {[timeout |-> t] : t \in 0..MaxReq}

HasTimeout(kwargs) == "timeout" \in DOMAIN kwargs

\* what the real requests.request reports
TransportErrors == {"ConnectionError", "ReadTimeout"}
Reports == {"response"} \cup TransportErrors

\* requests.Timeout and its subclasses
TimeoutClass == {"Timeout", "ReadTimeout"}

StatusCodes == {200}

\* the attributes of the cloned module that arguments_catcher replaces
Verbs == {"get", "post", "delete", "put", "patch"}
Attrs == {"request"} \cup Verbs

URL == "url"

\* positional arguments the body passes to requests.<attr>
BodyArgs(attr) ==
    IF attr = "request" THEN {<<m, URL>> : m \in Verbs} ELSE {<<URL>>}

NoCall == [attr |-> "request", args |-> <<>>, kwargs |-> NoKwargs,
           effective |-> 0, before |-> 0, active |-> FALSE]

\* the other invocation before arguments_catcher was entered
NoOther == [pc |-> "idle", remained_timeout |-> 0, effective |-> 0,
            consumed |-> 0, calls |-> 0]

\* no call by a second thread
NoThread == [pc |-> "none", kwargs |-> NoKwargs, effective |-> 0, before |-> 0,
             dt |-> 0, outcome |-> "None", loaded |-> 0]

\* ------------------------------------------------------ function_dispatch
\* dispatch_function bound to the last verb of the loop of line 168
DispatchArgsLateBound(method, args) == <<"patch">> \o args

\* line 126: the verb becomes the first positional argument of request
DispatchArgs(method, args) == <<method>> \o args

\* positional arguments that reach shared_timeout_request, hence the transport
TransportArgs(attr, args) ==
    IF attr = "request" THEN args ELSE DispatchArgs(attr, args)

\* ------------------------------------------------- shared_timeout_request
\* Clamp without the `elif _timeout > remained_timeout` branch
ClampNoCeiling(kwargs, remained) ==
    IF ~HasTimeout(kwargs) \/ kwargs.timeout = 0 THEN remained
    ELSE kwargs.timeout

\* Clamp offering the decorator's total when no timeout is given
ClampTotal(kwargs, remained) ==
    IF ~HasTimeout(kwargs) \/ kwargs.timeout = 0 THEN timeout
    ELSE IF kwargs.timeout > remained THEN remained
    ELSE kwargs.timeout

\* lines 152-157: `not _timeout` holds for a missing timeout and for 0
Clamp(kwargs, remained) ==
    IF ~HasTimeout(kwargs) \/ kwargs.timeout = 0 THEN remained
    ELSE IF kwargs.timeout > remained THEN remained
    ELSE kwargs.timeout

\* Exceeded with one tick of tolerance
ExceededLenient(dt, total) == dt > total + 1

\* line 162: the duration is compared with the decorator's total
Exceeded(dt, total) == dt > total

\* Outcome with the duration check applied to a raising transport as well
OutcomeReclassify(report, dt, total) ==
    IF dt > total THEN "Timeout"
    ELSE IF report \in TransportErrors THEN report
    ELSE "response"

\* Outcome with the duration compared with the remaining budget
OutcomeAgainstRemaining(report, dt, total) ==
    IF report \in TransportErrors THEN report
    ELSE IF dt > remained_timeout THEN "Timeout"
    ELSE "response"

\* lines 160-165: what the call does for its caller, given what the
\* transport reported and how long it took
Outcome(report, dt, total) ==
    IF report \in TransportErrors THEN report
    ELSE IF Exceeded(dt, total) THEN "Timeout"
    ELSE "response"

\* Decrement that treats a negative result as zero
DecrementClamped(outcome, remained, dt) ==
    IF outcome = "response"
    THEN (IF remained - dt < 0 THEN 0 ELSE remained - dt)
    ELSE remained

\* Decrement with the sign of the duration inverted
DecrementAdds(outcome, remained, dt) ==
    IF outcome = "response" THEN remained + dt ELSE remained

\* Decrement charged before the duration check
DecrementAlways(outcome, remained, dt) ==
    IF outcome \in {"response", "Timeout"} THEN remained - dt ELSE remained

\* line 164 is reached only when nothing was raised
Decrement(outcome, remained, dt) ==
    IF outcome = "response" THEN remained - dt ELSE remained

Record(report, dt) ==
    [attr      |-> call.attr,
     args      |-> call.args,
     kwargs    |-> call.kwargs,
     effective |-> call.effective,
     before    |-> call.before,
     dt        |-> dt,
     transport |-> report,
     outcome   |-> Outcome(report, dt, timeout),
     after     |-> Decrement(Outcome(report, dt, timeout), remained_timeout, dt)]

\* ------------------------------------------------------------------ Init
Init ==
    /\ timeout \in 1..MaxTimeout
    /\ pc = "idle"
    /\ loop_count = 1
    /\ callback = FALSE
    /\ remained_timeout = timeout
    /\ call = NoCall
    /\ status_codes = <<>>
    /\ result = <<>>
    /\ exception = "None"
    /\ log = <<>>
    /\ transport_calls = 0
    /\ other = NoOther
    /\ thread2 = NoThread

\* --------------------------------------------------------------- actions
\* arguments_catcher up to the call of the embedded function
Invoke(n, cb) ==
    /\ pc \in {"idle", "returned", "raised"}
    /\ pc' = "body"
    /\ loop_count' = n
    /\ callback' = cb
    /\ remained_timeout' = timeout
    /\ call' = NoCall
    /\ status_codes' = <<>>
    /\ result' = <<>>
    /\ exception' = "None"
    /\ log' = <<>>
    /\ transport_calls' = 0
    /\ thread2' = NoThread
    /\ UNCHANGED <<timeout, other>>

\* the except clause of the decorated function
Handle(e) ==
    /\ exception' = e
    /\ result' = <<>>
    /\ pc' = IF callback THEN "returned" ELSE "raised"
    /\ UNCHANGED status_codes

\* Request that raises at once, without a transport call, when nothing is left
RequestFailFast(attr, args, kwargs) ==
    /\ pc = "body"
    /\ Len(status_codes) < loop_count
    /\ IF remained_timeout <= 0
       THEN /\ log' = Append(log, [attr      |-> attr,
                                   args      |-> TransportArgs(attr, args),
                                   kwargs    |-> kwargs,
                                   effective |-> Clamp(kwargs, remained_timeout),
                                   before    |-> remained_timeout,
                                   dt        |-> 0,
                                   transport |-> "none",
                                   outcome   |-> "Timeout",
                                   after     |-> remained_timeout])
            /\ Handle("Timeout")
            /\ UNCHANGED <<call, transport_calls>>
       ELSE /\ call' = [attr      |-> attr,
                        args      |-> TransportArgs(attr, args),
                        kwargs    |-> kwargs,
                        effective |-> Clamp(kwargs, remained_timeout),
                        before    |-> remained_timeout,
                        active    |-> TRUE]
            /\ transport_calls' = transport_calls + 1
            /\ pc' = "transport"
            /\ UNCHANGED <<status_codes, result, exception, log>>
    /\ UNCHANGED <<timeout, loop_count, callback, remained_timeout, other, thread2>>

\* the body calls requests.<attr>(*args, **kwargs): dispatch_function for a
\* verb (the cloned module is alive while the body runs), then
\* shared_timeout_request up to the call of requests.request
Request(attr, args, kwargs) ==
    /\ pc = "body"
    /\ Len(status_codes) < loop_count
    /\ call' = [attr      |-> attr,
                args      |-> TransportArgs(attr, args),
                kwargs    |-> kwargs,
                effective |-> Clamp(kwargs, remained_timeout),
                before    |-> remained_timeout,
                active    |-> TRUE]
    /\ transport_calls' = transport_calls + 1
    /\ pc' = "transport"
    /\ UNCHANGED <<timeout, loop_count, callback, remained_timeout,
                   status_codes, result, exception, log, other, thread2>>

\* the rest of shared_timeout_request and the body's reaction to it
Complete(report, dt, code) ==
    /\ pc = "transport"
    /\ log' = Append(log, Record(report, dt))
    /\ remained_timeout' = Decrement(Outcome(report, dt, timeout), remained_timeout, dt)
    /\ call' = NoCall
    /\ IF Outcome(report, dt, timeout) = "response"
       THEN /\ status_codes' = Append(status_codes, code)
            /\ pc' = "body"
            /\ UNCHANGED <<result, exception>>
       ELSE Handle(Outcome(report, dt, timeout))
    /\ UNCHANGED <<timeout, loop_count, callback, transport_calls, other, thread2>>

\* requests.request returns a response after dt
TransportReturns(dt, code) == Complete("response", dt, code)

\* requests.request raises after dt
TransportRaises(dt, err) == Complete(err, dt, 0)

\* the loop is over: return status_codes
Return ==
    /\ pc = "body"
    /\ Len(status_codes) = loop_count
    /\ result' = status_codes
    /\ pc' = "returned"
    /\ UNCHANGED <<timeout, loop_count, callback, remained_timeout, call,
                   status_codes, exception, log, transport_calls, other, thread2>>

Next ==
    \/ \E n \in 1..MaxLoop, cb \in BOOLEAN : Invoke(n, cb)
    \/ \E kwargs \in Kwargs : Request("get", <<URL>>, kwargs)
    \/ \E dt \in 0..MaxDt, code \in StatusCodes : TransportReturns(dt, code)
    \/ \E dt \in 0..MaxDt, err \in TransportErrors : TransportRaises(dt, err)
    \/ Return

Spec == Init /\ [][Next]_vars

\* the body reaches the budget through any attribute of the cloned module
NextVerbs ==
    \/ \E n \in 1..2, cb \in BOOLEAN : Invoke(n, cb)
    \/ \E attr \in Attrs : \E args \in BodyArgs(attr) :
          \E kwargs \in {NoKwargs, [timeout |-> MaxReq]} : Request(attr, args, kwargs)
    \/ \E dt \in 0..MaxDt, code \in StatusCodes : TransportReturns(dt, code)
    \/ \E err \in TransportErrors : TransportRaises(1, err)
    \/ Return

SpecVerbs == Init /\ [][NextVerbs]_vars

\* ------------------------------------------- a second, concurrent invocation
main_vars == <<timeout, pc, loop_count, callback, remained_timeout, call,
               status_codes, result, exception, log, transport_calls, thread2>>

\* arguments_catcher entered by another caller: a cell of its own (line 148)
OtherInvoke ==
    /\ other.pc \in {"idle", "done"}
    /\ other' = [pc |-> "body", remained_timeout |-> timeout, effective |-> 0,
                 consumed |-> 0, calls |-> 0]
    /\ UNCHANGED main_vars

\* shared_timeout_request of the other invocation up to requests.request
OtherRequest(kwargs) ==
    /\ other.pc = "body"
    /\ other.calls < 2
    /\ other' = [other EXCEPT !.pc = "transport",
                              !.effective = Clamp(kwargs, other.remained_timeout)]
    /\ UNCHANGED main_vars

\* OtherComplete with one budget cell shared by all invocations
OtherCompleteShared(report, dt) ==
    /\ other.pc = "transport"
    /\ other' = [other EXCEPT
                    !.pc = IF Outcome(report, dt, timeout) = "response"
                           THEN "body" ELSE "done",
                    !.remained_timeout =
                        Decrement(Outcome(report, dt, timeout), @, dt),
                    !.consumed = IF Outcome(report, dt, timeout) = "response"
                                 THEN @ + dt ELSE @,
                    !.calls = @ + 1]
    /\ remained_timeout' = Decrement(Outcome(report, dt, timeout), remained_timeout, dt)
    /\ UNCHANGED <<timeout, pc, loop_count, callback, call, status_codes,
                   result, exception, log, transport_calls, thread2>>

\* the rest of shared_timeout_request in the other invocation: it writes the
\* cell of its own arguments_catcher frame
OtherComplete(report, dt) ==
    /\ other.pc = "transport"
    /\ other' = [other EXCEPT
                    !.pc = IF Outcome(report, dt, timeout) = "response"
                           THEN "body" ELSE "done",
                    !.remained_timeout =
                        Decrement(Outcome(report, dt, timeout), @, dt),
                    !.consumed = IF Outcome(report, dt, timeout) = "response"
                                 THEN @ + dt ELSE @,
                    !.calls = @ + 1]
    /\ UNCHANGED main_vars

\* the other invocation returns
OtherReturn ==
    /\ other.pc = "body"
    /\ other' = [other EXCEPT !.pc = "done"]
    /\ UNCHANGED main_vars

NextIsolation ==
    \/ \E n \in 1..2, cb \in BOOLEAN : Invoke(n, cb)
    \/ Request("get", <<URL>>, NoKwargs)
    \/ \E dt \in 0..MaxDt, code \in StatusCodes : TransportReturns(dt, code)
    \/ \E err \in TransportErrors : TransportRaises(1, err)
    \/ Return
    \/ OtherInvoke
    \/ \E kwargs \in Kwargs : OtherRequest(kwargs)
    \/ \E report \in Reports, dt \in 0..MaxDt : OtherComplete(report, dt)
    \/ OtherReturn

SpecIsolation == Init /\ [][NextIsolation]_vars

TypeOK ==
    /\ timeout \in 1..MaxTimeout
    /\ pc \in {"idle", "body", "transport", "returned", "raised"}
    /\ loop_count \in 1..MaxLoop
    /\ callback \in BOOLEAN
    /\ remained_timeout \in Int
    /\ Len(log) <= MaxLoop

\* ---------------------------------- a second thread inside one invocation
thread_frame == <<timeout, pc, loop_count, callback, call, status_codes,
                  result, exception, log, transport_calls, other>>

\* a thread started by the body calls request: lines 152-159 read the cell
\* while another call of the same invocation may be in flight
T2Request(kwargs) ==
    /\ pc \in {"body", "transport"}
    /\ thread2.pc = "none"
    /\ thread2' = [thread2 EXCEPT
                      !.pc = "transport",
                      !.kwargs = kwargs,
                      !.effective = Clamp(kwargs, remained_timeout),
                      !.before = remained_timeout]
    /\ UNCHANGED <<remained_timeout, thread_frame>>

\* lines 160-164 up to the read of the cell by `remained_timeout -= ...`;
\* a raise of line 160 or 163 ends the call without touching the cell
T2Transport(report, dt) ==
    /\ thread2.pc = "transport"
    /\ thread2' = [thread2 EXCEPT
                      !.pc = IF Outcome(report, dt, timeout) = "response"
                             THEN "loaded" ELSE "done",
                      !.dt = dt,
                      !.outcome = Outcome(report, dt, timeout),
                      !.loaded = remained_timeout]
    /\ UNCHANGED <<remained_timeout, thread_frame>>

\* T2Store as if the read and the write of line 164 were under one lock
T2StoreSerialised ==
    /\ thread2.pc = "loaded"
    /\ remained_timeout' = Decrement(thread2.outcome, remained_timeout, thread2.dt)
    /\ thread2' = [thread2 EXCEPT !.pc = "done"]
    /\ UNCHANGED thread_frame

\* line 164, the write: the value read earlier minus the duration
T2Store ==
    /\ thread2.pc = "loaded"
    /\ remained_timeout' = Decrement(thread2.outcome, thread2.loaded, thread2.dt)
    /\ thread2' = [thread2 EXCEPT !.pc = "done"]
    /\ UNCHANGED thread_frame

\* the body joins its thread before it returns
NextRace ==
    \/ \E n \in 1..2, cb \in BOOLEAN : thread2.pc \in {"none", "done"} /\ Invoke(n, cb)
    \/ \E kwargs \in {NoKwargs, [timeout |-> MaxReq]} : Request("get", <<URL>>, kwargs)
    \/ \E dt \in 0..MaxDt, code \in StatusCodes : TransportReturns(dt, code)
    \/ \E err \in TransportErrors : TransportRaises(1, err)
    \/ thread2.pc \in {"none", "done"} /\ Return
    \/ \E kwargs \in Kwargs : T2Request(kwargs)
    \/ \E report \in Reports, dt \in 0..MaxDt : T2Transport(report, dt)
    \/ T2Store

SpecRace == Init /\ [][NextRace]_vars

\* ------------------------------------------------------------ properties
Finished == pc \in {"returned", "raised"}
BetweenCalls == pc \in {"body", "returned", "raised"}
Calls == {log[j] : j \in 1..Len(log)}

RECURSIVE SumOfResponses(_)
SumOfResponses(l) ==
    IF l = <<>> THEN 0
    ELSE (IF l[1].outcome = "response" THEN l[1].dt ELSE 0) + SumOfResponses(Tail(l))

\* every completed call had no per-call timeout and was served in d ticks
Uniform(d) ==
    \A r \in Calls : ~HasTimeout(r.kwargs) /\ r.dt = d /\ r.transport = "response"

\* C1: between calls the remaining budget lies in 0..total_timeout.
C1_RemainingInRange ==
    BetweenCalls => 0 <= remained_timeout /\ remained_timeout <= timeout

\* C2: the timeout handed to the transport is never greater than the
\* remaining budget at the moment of the call, and a per-call timeout
\* greater than remaining is replaced by exactly remaining.
C2_EffectiveAtMostRemaining ==
    /\ call.active =>
         /\ call.before = remained_timeout
         /\ call.effective <= remained_timeout
         /\ (HasTimeout(call.kwargs) /\ call.kwargs.timeout > remained_timeout)
               => call.effective = remained_timeout
    /\ \A r \in Calls :
         /\ r.effective <= r.before
         /\ (HasTimeout(r.kwargs) /\ r.kwargs.timeout > r.before)
               => r.effective = r.before

C2_Witness ==
    /\ call.active
    /\ Len(log) >= 1
    /\ remained_timeout < timeout
    /\ HasTimeout(call.kwargs)
    /\ call.kwargs.timeout > remained_timeout
    /\ call.effective = remained_timeout

\* C3: the durations of the calls that returned a response sum to at most
\* total_timeout.
C3_ResponsesWithinTotal == SumOfResponses(log) <= timeout

\* C4: a call whose transport returned a response after more than the budget
\* that remained when the call started raises a timeout error.
C4_TimeoutWhenOverRemaining ==
    \A r \in Calls :
        (r.transport = "response" /\ r.dt > r.before) => r.outcome \in TimeoutClass

\* C5: N calls without per-call timeout, each served in d ticks, with
\* total_timeout = k*d and k < N: the first k calls return responses and
\* call k+1 raises a timeout-class error.
C5_ExhaustionAfterK ==
    \A d \in 1..MaxDt, k \in 1..MaxLoop :
        (pc # "idle" /\ timeout = k * d /\ k < loop_count /\ Uniform(d))
            => /\ \A j \in 1..Len(log) : j <= k => log[j].outcome = "response"
               /\ Len(log) > k => log[k + 1].outcome \in TimeoutClass

\* C6: a decorated loop whose requests each take at least d > 0 ticks, with
\* loop_count * d > total_timeout, ends with a timeout-class error at the
\* handler or the caller, never with all iterations completed.
C6_LoopEndsInTimeout ==
    \A d \in 1..MaxDt :
        (/\ Finished
         /\ loop_count * d > timeout
         /\ \A r \in Calls : r.dt >= d /\ r.transport # "ConnectionError")
            => exception \in TimeoutClass

\* C7: a call whose transport raised after dt leaves remaining decreased by dt.
C7_FailureConsumesBudget ==
    \A r \in Calls :
        r.transport \in TransportErrors => r.after = r.before - r.dt

\* C8: an error raised by the transport reaches the caller as that same
\* error, and the call yields no response.
C8_TransportErrorPassesThrough ==
    /\ \A r \in Calls : r.transport \in TransportErrors => r.outcome = r.transport
    /\ (Finished /\ log # <<>> /\ log[Len(log)].transport \in TransportErrors)
          => /\ exception = log[Len(log)].transport
             /\ result = <<>>
             /\ Len(status_codes) = Len(log) - 1

C8_Witness ==
    /\ Finished
    /\ Len(log) >= 2
    /\ log[Len(log)].transport = "ReadTimeout"
    /\ log[Len(log)].dt > timeout
    /\ exception = "ReadTimeout"

C10_DefaultIsRemaining ==
    /\ (call.active /\ ~HasTimeout(call.kwargs)) =>
          /\ call.effective = remained_timeout
          /\ log = <<>> => call.effective = timeout
    /\ \A j \in 1..Len(log) :
          ~HasTimeout(log[j].kwargs) =>
              /\ log[j].effective = log[j].before
              /\ log[j].before = timeout - SumOfResponses(SubSeq(log, 1, j - 1))

C10_Witness ==
    /\ call.active
    /\ ~HasTimeout(call.kwargs)
    /\ Len(log) >= 2
    /\ remained_timeout < timeout
    /\ call.effective = remained_timeout

Min(a, b) == IF a <= b THEN a ELSE b

\* C11: a call that carries a per-call timeout, 0 included, hands the
\* transport min(requested, remaining).
C11_PresentTimeoutIsMin ==
    /\ (call.active /\ HasTimeout(call.kwargs)) =>
          call.effective = Min(call.kwargs.timeout, call.before)
    /\ \A r \in Calls :
          HasTimeout(r.kwargs) => r.effective = Min(r.kwargs.timeout, r.before)

\* C12: a call that returns a response leaves remaining at its previous
\* value minus dt exactly; between calls remaining is total_timeout minus the
\* durations of the calls that returned, and that value is what the next call
\* without a timeout is offered.
C12_RemainingIsTotalMinusResponses ==
    /\ \A r \in Calls : r.outcome = "response" => r.after = r.before - r.dt
    /\ pc # "idle" => remained_timeout = timeout - SumOfResponses(log)
    /\ (call.active /\ ~HasTimeout(call.kwargs)) =>
          call.effective = timeout - SumOfResponses(log)

C12_Witness ==
    /\ call.active
    /\ ~HasTimeout(call.kwargs)
    /\ Len(log) = 2
    /\ log[1].dt = 1 /\ log[2].dt = 2
    /\ call.effective = timeout - 3

\* C13: within one invocation remaining never increases from one step to
\* the next.
C13_RemainingNeverIncreases ==
    [][(pc \in {"body", "transport"}) => (remained_timeout' <= remained_timeout)]_vars

C13_Witness ==
    /\ pc = "body"
    /\ Len(log) >= 2
    /\ log[1].after < log[1].before
    /\ log[2].after < log[2].before
    /\ remained_timeout = log[2].after

\* C14: once remaining has been 0 after some call, every later call of the
\* invocation is handed a timeout of exactly 0 or fails with a timeout-class
\* error.
C14_ExhaustedMeansZero ==
    /\ \A j, k \in 1..Len(log) :
          (j < k /\ log[j].after = 0) =>
              (log[k].effective = 0 \/ log[k].outcome \in TimeoutClass)
    /\ (call.active /\ \E j \in 1..Len(log) : log[j].after = 0) => call.effective = 0

C19_TimeoutLeavesBudget ==
    /\ [](\A r \in Calls : r.outcome = "Timeout" => r.after = r.before)
    /\ []((Finished /\ exception = "Timeout") =>
             remained_timeout = log[Len(log)].before)
    /\ [][timeout' = timeout]_vars

C19_Witness ==
    /\ Finished
    /\ exception = "Timeout"
    /\ Len(log) >= 2
    /\ log[Len(log)].dt > timeout
    /\ remained_timeout = log[Len(log)].before
    /\ remained_timeout < timeout

InFlight == IF call.active THEN {call} ELSE {}

\* C15: a call through get, post, put, patch or delete is request with that
\* method put in front of the positional arguments: same clamp, same check
\* and decrement, one budget shared with every other call of the invocation.
C15_VerbIsRequestWithMethod ==
    /\ \A r \in Calls \cup InFlight :
          /\ r.attr \in Verbs => r.args = <<r.attr, URL>>
          /\ r.attr = "request" => (Len(r.args) = 2 /\ r.args[2] = URL)
          /\ r.effective = Clamp(r.kwargs, r.before)
    /\ \A j \in 1..Len(log) :
          /\ log[j].before = timeout - SumOfResponses(SubSeq(log, 1, j - 1))
          /\ log[j].outcome = Outcome(log[j].transport, log[j].dt, timeout)
          /\ log[j].after = Decrement(log[j].outcome, log[j].before, log[j].dt)
    /\ call.active => call.before = timeout - SumOfResponses(log)

C15_Witness ==
    /\ call.active
    /\ call.attr = "delete"
    /\ call.args = <<"delete", URL>>
    /\ Len(log) = 1
    /\ log[1].attr = "request"
    /\ log[1].args = <<"post", URL>>
    /\ log[1].dt = 1
    /\ call.before = timeout - 1
    /\ HasTimeout(call.kwargs)
    /\ call.effective = call.before

\* C20: every request call makes exactly one transport call and completes
\* only with what that transport call reported, also when remaining is
\* already 0 or negative.
C20_OneTransportCallPerRequest ==
    /\ transport_calls = Len(log) + (IF call.active THEN 1 ELSE 0)
    /\ call.active <=> pc = "transport"
    /\ \A r \in Calls : r.transport \in Reports

C20_Witness ==
    /\ Len(log) = 3
    /\ log[2].before = 0
    /\ log[3].before < 0
    /\ transport_calls = 3
    /\ log[3].transport = "response"

\* C16: every invocation starts with remaining = total_timeout and only its
\* own calls are charged to it, whatever another invocation of the same
\* decorated function does before, after or in between.
C16_InvocationsIsolated ==
    /\ pc # "idle" => remained_timeout = timeout - SumOfResponses(log)
    /\ other.pc # "idle" => other.remained_timeout = timeout - other.consumed
    /\ (pc = "body" /\ log = <<>>) => remained_timeout = timeout
    /\ (other.pc = "body" /\ other.calls = 0) => other.remained_timeout = timeout

C16_Witness ==
    /\ pc = "transport"
    /\ other.pc = "transport"
    /\ SumOfResponses(log) = 1
    /\ other.consumed = 2
    /\ remained_timeout = timeout - 1
    /\ other.remained_timeout = timeout - 2

\* C17: two concurrent calls of one invocation are not serialised: a call is
\* offered the whole remaining budget while another call is in flight, and
\* the decrement writes the value it read before, whatever was written to the
\* cell in between.
C17_BookkeepingNotSerialised ==
    [][/\ (thread2.pc = "none" /\ thread2'.pc = "transport") =>
             /\ thread2'.before = remained_timeout
             /\ thread2'.effective = Clamp(thread2'.kwargs, remained_timeout)
       /\ (thread2.pc = "loaded" /\ thread2'.pc = "done") =>
             remained_timeout' = thread2.loaded - thread2.dt]_vars

\* both calls were offered the full budget and one decrement is lost
C17_Witness ==
    /\ pc = "body"
    /\ thread2.pc = "done"
    /\ thread2.outcome = "response"
    /\ Len(log) = 1
    /\ log[1].outcome = "response"
    /\ log[1].effective = timeout
    /\ thread2.effective = timeout
    /\ log[1].dt = 1
    /\ thread2.dt = 1
    /\ remained_timeout = timeout - 1
====
